---- MODULE Spec2Model ----
(***************************************************************************)
(* Model of src/spline_wrapper.py: class SplineRegressor, a scikit-learn   *)
(* style wrapper (fit / predict) around scipy's UnivariateSpline that      *)
(* first averages the y values of duplicate x values                       *)
(* (promediar_duplicados, the spec's "deduplicate").                       *)
(*                                                                         *)
(* Numbers.  x values are integers (they are only compared and sorted).    *)
(* y values and predictions are exact rationals [num, den] in lowest       *)
(* terms, so that a mean is a value of its own and not a rounded integer.  *)
(* All inputs are finite numbers (no NaN, no infinity).                    *)
(*                                                                         *)
(* Arrays are sequences.  A call's outcome is a record: either a returned  *)
(* value or the exception that was raised.                                 *)
(***************************************************************************)
EXTENDS Integers, Sequences, FiniteSets, TLC

VARIABLES
    s,        \* self.s      smoothing factor
    k,        \* self.k      spline degree
    model,    \* self.model  None, or the fitted spline
    lastFit,  \* history: the (X, y) of the most recent fit call that succeeded
    fits,     \* history: how many fit calls have succeeded: 0, 1, or 2 for more
    data,     \* the caller's data set (specification SpecData)
    res       \* the last call: its name, its arguments' summary and its outcome

vars == <<s, k, model, lastFit, fits, data, res>>

-----------------------------------------------------------------------------
(* Bounds of the model and constants of the program *)

\* longest X / y array passed to fit and promediar_duplicados in Spec
MaxLen == 2
\* longest query array passed to predict in Spec
MaxQ == 2
\* longest X / y array of the caller's data set in SpecData
DataLen == 5

\* def __init__(self, s=0, k=3)
DefaultS == 0
DefaultK == 3

-----------------------------------------------------------------------------
(* Exact rational arithmetic *)

RECURSIVE GCD(_, _)
GCD(a, b) == IF b = 0 THEN a ELSE GCD(b, a % b)

Norm(p, q) == LET g == GCD(p, q) IN [num |-> p \div g, den |-> q \div g]

R(n) == [num |-> n, den |-> 1]

RatAdd(a, b) == Norm(a.num * b.den + b.num * a.den, a.den * b.den)

RatDivInt(a, n) == Norm(a.num, a.den * n)

-----------------------------------------------------------------------------
(* Arrays *)

Range(f) == {f[i] : i \in DOMAIN f}

Arrays(S, n) == UNION {[1..m -> S] : m \in 0..n}

SetMin(S) == CHOOSE a \in S : \A b \in S : a <= b

\* the elements of a finite set of integers, ascending
RECURSIVE SortedSeq(_)
SortedSeq(S) == IF S = {} THEN <<>>
                ELSE LET a == SetMin(S) IN <<a>> \o SortedSeq(S \ {a})

\* ndarray.ravel(): the flat view of an array.  Arrays here are 1-D already
\* (shape (n_samples,), as the method docstrings say), for which ravel gives
\* the same elements in the same order.
ravel(X) == [i \in 1..Len(X) |-> X[i]]

-----------------------------------------------------------------------------
(* Outcomes of a call *)

None == [tag |-> "None"]

Raised(type, msg, by) == [type |-> type, msg |-> msg, by |-> by]

NoErr == [type |-> "", msg |-> "", by |-> ""]

NotFittedMsg == "This model is not fitted yet."

-----------------------------------------------------------------------------
(* promediar_duplicados: pd.DataFrame({"X": X, "y": y})                     *)
(*                         .groupby("X", as_index=False).mean()             *)

\* the sum of the y values of the rows 1..n whose X is key
RECURSIVE GroupSum(_, _, _, _)
GroupSum(X, y, key, n) ==
    IF n = 0 THEN R(0)
    ELSE IF X[n] = key THEN RatAdd(GroupSum(X, y, key, n - 1), y[n])
    ELSE GroupSum(X, y, key, n - 1)

GroupSize(X, key) == Cardinality({j \in 1..Len(X) : X[j] = key})

\* mutant: .sum() in place of .mean()
GroupMean_sum(X, y, key) == GroupSum(X, y, key, Len(X))

\* mutant: the last y of the group in place of its mean (drop_duplicates)
GroupMean_last(X, y, key) ==
    y[CHOOSE j \in 1..Len(X) : X[j] = key /\ \A i \in (j + 1)..Len(X) : X[i] # key]

\* .mean() of one group: the sum of the group's y values over their number
GroupMean(X, y, key) == RatDivInt(GroupSum(X, y, key, Len(X)), GroupSize(X, key))

\* mutant: groupby(sort=False), the keys in the order of their first rows
RECURSIVE FirstRows(_, _)
FirstRows(X, n) ==
    IF n = 0 THEN <<>>
    ELSE LET h == FirstRows(X, n - 1) IN
         IF X[n] \in Range(h) THEN h ELSE Append(h, X[n])

GroupKeys_unsorted(X) == FirstRows(X, Len(X))

\* groupby sorts the group keys ascending (sort=True is its default) and
\* keeps one row per distinct key
GroupKeys(X) == SortedSeq(Range(X))

promediar_duplicados(X, y) ==
    IF Len(X) # Len(y)
    THEN \* the DataFrame constructor rejects columns of different lengths
         [ok |-> FALSE,
          err |-> Raised("ValueError", "All arrays must be of the same length",
                         "DataFrame"),
          X |-> <<>>, y |-> <<>>]
    ELSE LET keys == GroupKeys(X) IN
         [ok |-> TRUE, err |-> NoErr,
          X |-> keys,
          y |-> [i \in 1..Len(keys) |-> GroupMean(X, y, keys[i])]]

-----------------------------------------------------------------------------
(* scipy.interpolate.UnivariateSpline(x, y, s=sm, k=deg), as far as the     *)
(* wrapper depends on it: which inputs it rejects, and that the spline it   *)
(* returns is a function of (x, y, s, k) that passes through the data       *)
(* points when s = 0.                                                       *)

Increasing(x) == \A i \in 1..(Len(x) - 1) : x[i] <= x[i + 1]

StrictlyIncreasing(x) == \A i \in 1..(Len(x) - 1) : x[i] < x[i + 1]

UnivariateSpline(x, y, sm, deg) ==
    IF sm > 0 /\ ~Increasing(x)
    THEN [ok |-> FALSE, spline |-> None,
          err |-> Raised("ValueError", "x must be increasing if s > 0",
                         "UnivariateSpline")]
    ELSE IF sm = 0 /\ ~StrictlyIncreasing(x)
    THEN [ok |-> FALSE, spline |-> None,
          err |-> Raised("ValueError", "x must be strictly increasing if s = 0",
                         "UnivariateSpline")]
    ELSE IF ~(1 <= deg /\ deg <= 5)
    THEN [ok |-> FALSE, spline |-> None,
          err |-> Raised("ValueError", "k should be 1 <= k <= 5",
                         "UnivariateSpline")]
    ELSE IF sm < 0
    THEN [ok |-> FALSE, spline |-> None,
          err |-> Raised("ValueError", "s should be s >= 0.0",
                         "UnivariateSpline")]
    ELSE IF ~(Len(x) > deg)
    THEN \* FITPACK's curfit needs m > k data points
         [ok |-> FALSE, spline |-> None,
          err |-> Raised("dfitpack.error", "(m>k) failed for hidden m",
                         "UnivariateSpline")]
    ELSE [ok |-> TRUE, err |-> NoErr,
          spline |-> [tag |-> "spline", x |-> x, y |-> y, s |-> sm, k |-> deg]]

\* spline(q) for one point q.  With s = 0 the spline interpolates: at a data
\* point it returns that point's y.  Any other value is left uninterpreted:
\* a term fixed by the spline and q.
SplineAt(spl, q) ==
    IF spl.s = 0 /\ q \in Range(spl.x)
    THEN spl.y[CHOOSE i \in 1..Len(spl.x) : spl.x[i] = q]
    ELSE [spline |-> spl, at |-> q]

\* spline(Xq) for an array: one value per element, in the array's order
SplineCall(spl, Xq) == [i \in 1..Len(Xq) |-> SplineAt(spl, Xq[i])]

-----------------------------------------------------------------------------
(* SplineRegressor.fit and SplineRegressor.predict as functions of the      *)
(* instance's fields                                                        *)

\* mutant: self.model = None at the start of fit, so that a failure in
\* promediar_duplicados leaves the instance unfitted
fit_reset_first(X, y, sm, deg, old) ==
    LET d == promediar_duplicados(ravel(X), y) IN
    IF ~d.ok
    THEN [model |-> None, ok |-> FALSE, err |-> d.err]
    ELSE LET u == UnivariateSpline(d.X, d.y, sm, deg) IN
         IF ~u.ok
         THEN [model |-> old, ok |-> FALSE, err |-> u.err]
         ELSE [model |-> u.spline, ok |-> TRUE, err |-> NoErr]

\* mutant: a spline that could not be built is stored as None
fit_store_failure(X, y, sm, deg, old) ==
    LET d == promediar_duplicados(ravel(X), y) IN
    IF ~d.ok
    THEN [model |-> old, ok |-> FALSE, err |-> d.err]
    ELSE LET u == UnivariateSpline(d.X, d.y, sm, deg) IN
         IF ~u.ok
         THEN [model |-> None, ok |-> FALSE, err |-> u.err]
         ELSE [model |-> u.spline, ok |-> TRUE, err |-> NoErr]

\* mutant: the spline is built once (if self.model is None) and kept
fit_keep_first(X, y, sm, deg, old) ==
    LET d == promediar_duplicados(ravel(X), y) IN
    IF ~d.ok
    THEN [model |-> old, ok |-> FALSE, err |-> d.err]
    ELSE LET u == UnivariateSpline(d.X, d.y, sm, deg) IN
         IF ~u.ok
         THEN [model |-> old, ok |-> FALSE, err |-> u.err]
         ELSE [model |-> IF old = None THEN u.spline ELSE old,
               ok |-> TRUE, err |-> NoErr]

\* mutant: the spline is built from the raw (X, y), duplicates included
fit_no_dedup(X, y, sm, deg, old) ==
    LET d == promediar_duplicados(ravel(X), y) IN
    IF ~d.ok
    THEN [model |-> old, ok |-> FALSE, err |-> d.err]
    ELSE LET u == UnivariateSpline(ravel(X), y, sm, deg) IN
         IF ~u.ok
         THEN [model |-> old, ok |-> FALSE, err |-> u.err]
         ELSE [model |-> u.spline, ok |-> TRUE, err |-> NoErr]

\* mutant: s is not passed on, so the constructor's default applies
\* (s=None: a smoothing factor equal to the number of points)
fit_default_s(X, y, sm, deg, old) ==
    LET d == promediar_duplicados(ravel(X), y) IN
    IF ~d.ok
    THEN [model |-> old, ok |-> FALSE, err |-> d.err]
    ELSE LET u == UnivariateSpline(d.X, d.y, Len(d.X), deg) IN
         IF ~u.ok
         THEN [model |-> old, ok |-> FALSE, err |-> u.err]
         ELSE [model |-> u.spline, ok |-> TRUE, err |-> NoErr]

\* fit: the value of self.model after the call, and the call's outcome.
\* self.model is assigned only when both line 55 and the constructor on the
\* right-hand side of line 56 have returned.
fit(X, y, sm, deg, old) ==
    LET d == promediar_duplicados(ravel(X), y) IN
    IF ~d.ok
    THEN [model |-> old, ok |-> FALSE, err |-> d.err]
    ELSE LET u == UnivariateSpline(d.X, d.y, sm, deg) IN
         IF ~u.ok
         THEN [model |-> old, ok |-> FALSE, err |-> u.err]
         ELSE [model |-> u.spline, ok |-> TRUE, err |-> NoErr]

\* mutant: no guard, self.model(X.ravel()) is called on None
predict_no_guard(X, m) ==
    IF m # None
    THEN [ok |-> TRUE, err |-> NoErr, out |-> SplineCall(m, ravel(X))]
    ELSE [ok |-> FALSE, out |-> <<>>,
          err |-> Raised("TypeError", "'NoneType' object is not callable", "predict")]

\* mutant: the spline is evaluated on the sorted distinct inputs
predict_sorted(X, m) ==
    IF m # None
    THEN [ok |-> TRUE, err |-> NoErr, out |-> SplineCall(m, SortedSeq(Range(ravel(X))))]
    ELSE [ok |-> FALSE, out |-> <<>>,
          err |-> Raised("ValueError", NotFittedMsg, "predict")]

predict(X, m) ==
    IF m # None
    THEN [ok |-> TRUE, err |-> NoErr, out |-> SplineCall(m, ravel(X))]
    ELSE [ok |-> FALSE, out |-> <<>>,
          err |-> Raised("ValueError", NotFittedMsg, "predict")]

-----------------------------------------------------------------------------
(* The instance and its callers *)

\* hyperparameters an instance is constructed with
SVals == {DefaultS, 1}
KVals == {1, DefaultK}

\* values of the arrays passed in Spec
XVals == {1, 2}
YVals == {R(10), R(20)}
QVals == {1, 5}

NoData == [X |-> <<>>, y |-> <<>>]

NoCall == [op |-> "init", ok |-> TRUE, err |-> NoErr, arg |-> <<>>, out |-> <<>>]

\* __init__
Init ==
    /\ s \in SVals
    /\ k \in KVals
    /\ model = None
    /\ lastFit = None
    /\ fits = 0
    /\ data = NoData
    /\ res = NoCall

\* in each action, r is the outcome of the one call the action makes
Fit(X, y) ==
    \E r \in {fit(X, y, s, k, model)} :
    /\ model' = r.model
    /\ lastFit' = IF r.ok THEN [tag |-> "data", X |-> X, y |-> y] ELSE lastFit
    /\ fits' = IF r.ok /\ fits < 2 THEN fits + 1 ELSE fits
    /\ res' = [op |-> "fit", ok |-> r.ok, err |-> r.err, arg |-> <<>>, out |-> <<>>]
    /\ UNCHANGED <<s, k, data>>

Predict(X) ==
    \E r \in {predict(X, model)} :
    /\ res' = [op |-> "predict", ok |-> r.ok, err |-> r.err, arg |-> X, out |-> r.out]
    /\ UNCHANGED <<s, k, model, lastFit, fits, data>>

Deduplicate(X, y) ==
    \E d \in {promediar_duplicados(X, y)} :
    /\ res' = [op |-> "dedup", ok |-> d.ok, err |-> d.err, arg |-> <<>>,
               out |-> <<d.X, d.y>>]
    /\ UNCHANGED <<s, k, model, lastFit, fits, data>>

\* the (X, y) a caller passes: of equal length, or y one element short
CallArgs ==
    {a \in Arrays(XVals, MaxLen) \X Arrays(YVals, MaxLen) :
        Len(a[2]) \in {Len(a[1]), Len(a[1]) - 1}}

CallFit == \E a \in CallArgs : Fit(a[1], a[2])

CallPredict == \E X \in Arrays(QVals, MaxQ) : Predict(X)

\* promediar_duplicados is a static method: it is called here beside the
\* instance, on a data set with duplicates and on arrays of different lengths
DedupArgs == {<<<<1, 1, 2, 3>>, <<R(10), R(20), R(30), R(40)>>>>,
              <<<<2, 1, 2>>, <<R(10), R(20), R(20)>>>>,
              <<<<>>, <<>>>>,
              <<<<1, 2>>, <<R(10)>>>>}

CallDeduplicate == \E a \in DedupArgs : Deduplicate(a[1], a[2])

Next == CallFit \/ CallPredict \/ CallDeduplicate

Spec == Init /\ [][Next]_vars

-----------------------------------------------------------------------------
(* One data set, taken through the operations: SpecData *)

\* enough x values to fit a spline of the default degree
DataXVals == 1..(DefaultK + 1)

\* the scenario of the specification's section 8
ScenarioX == <<1, 1, 2, 3>>
ScenarioY == <<R(10), R(20), R(30), R(40)>>
Scenario == [X |-> ScenarioX, y |-> ScenarioY]

\* y arrays of length n: rising, constant and two-level
YArrays(n) == {[i \in 1..n |-> R(10 * i)],
               [i \in 1..n |-> R(10)],
               [i \in 1..n |-> R(10 + 10 * (i % 2))]}

\* the instances SpecData constructs: (s, k)
DataParams == {<<DefaultS, DefaultK>>, <<DefaultS, DefaultK - 1>>, <<1, DefaultK>>}

\* equal-length (X, y); the scenario is one of them
DataSets ==
    UNION {{[X |-> X, y |-> y] : X \in [1..m -> DataXVals], y \in YArrays(m)} :
           m \in 0..DataLen}

DataInit ==
    /\ \E p \in DataParams : s = p[1] /\ k = p[2]
    /\ model = None
    /\ lastFit = None
    /\ fits = 0
    /\ data \in DataSets
    /\ res = NoCall

\* the caller's script: deduplicate, deduplicate the result, fit, predict
DataDeduplicate == res.op = "init" /\ Deduplicate(data.X, data.y)

DataFit == res.op = "dedup2" /\ Fit(data.X, data.y)

\* promediar_duplicados(*promediar_duplicados(X, y))
DataDeduplicateAgain ==
    /\ res.op = "dedup"
    /\ res.ok
    /\ \E d \in {promediar_duplicados(res.out[1], res.out[2])} :
       res' = [op |-> "dedup2", ok |-> d.ok, err |-> d.err, arg |-> res.out,
               out |-> <<d.X, d.y>>]
    /\ UNCHANGED <<s, k, model, lastFit, fits, data>>

\* predict at the training x values, as given or deduplicated
DataPredict == res.op = "fit" /\ \E X \in {data.X, GroupKeys(data.X)} : Predict(X)

DataNext == DataDeduplicate \/ DataDeduplicateAgain \/ DataFit \/ DataPredict

SpecData == DataInit /\ [][DataNext]_vars

-----------------------------------------------------------------------------
(* Properties *)

Fitted == model # None

IsRat(v) == DOMAIN v = {"num", "den"}

Rows(X, v) == {j \in 1..Len(X) : X[j] = v}

\* the sum of the numerators of y over the rows I (the data's y are integers)
RECURSIVE NumSum(_, _)
NumSum(y, I) == IF I = {} THEN 0
                ELSE LET j == CHOOSE j \in I : TRUE IN y[j].num + NumSum(y, I \ {j})

\* v is the arithmetic mean of the y values of the rows of X that hold x
IsMeanAt(v, X, y, x) ==
    /\ IsRat(v)
    /\ Rows(X, x) # {}
    /\ v.den > 0
    /\ v.num * Cardinality(Rows(X, x)) = v.den * NumSum(y, Rows(X, x))

NotFittedError(e) == e.type = "ValueError" /\ e.msg = NotFittedMsg /\ e.by = "predict"

\* the error of the spline construction
FitError(e) == e.by = "UnivariateSpline"

\* the fitted state of a fresh instance with the same hyperparameters after
\* one fit on (X, y)
FreshFit(X, y) == fit(X, y, s, k, None).model

\* C1: on an instance on which no fit has succeeded, every predict call,
\* with any input, the empty array included, raises the error with the
\* message "This model is not fitted yet." and returns nothing.
C1_PredictBeforeFit ==
    (res.op = "predict" /\ fits = 0) =>
        (~res.ok /\ NotFittedError(res.err) /\ res.out = <<>>)

C1_Witness == res.op = "predict" /\ fits = 0 /\ res.arg = <<>>

\* C2: deduplicate returns arrays of equal length; X_unique is strictly
\* increasing and holds exactly the distinct values of X; y_avg[i] is the
\* mean of the y[j] with X[j] = X_unique[i]; no rows give empty arrays.
C2_Deduplicate ==
    res.op = "dedup" =>
        /\ res.ok
        /\ Len(res.out[1]) = Len(res.out[2])
        /\ StrictlyIncreasing(res.out[1])
        /\ Range(res.out[1]) = Range(data.X)
        /\ \A i \in 1..Len(res.out[1]) :
              IsMeanAt(res.out[2][i], data.X, data.y, res.out[1][i])
        /\ (data.X = <<>> => res.out = <<<<>>, <<>>>>)

\* a group of three rows whose mean is not an integer
C2_Witness ==
    /\ res.op = "dedup"
    /\ \E i \in 1..Len(res.out[1]) :
          /\ Cardinality(Rows(data.X, res.out[1][i])) = 3
          /\ res.out[2][i].den = 3

\* C3: a fit call that fails, in promediar_duplicados or in the spline
\* construction, leaves self.model as it was; self.model changes only in a
\* fit call that succeeds.
C3_FitAllOrNothing ==
    [][/\ (res'.op = "fit" /\ ~res'.ok) => model' = model
       /\ model' # model => (res'.op = "fit" /\ res'.ok)]_vars

\* a fitted instance after a fit call that failed in the spline construction
C3_Witness == res.op = "fit" /\ ~res.ok /\ FitError(res.err) /\ Fitted

\* C4: fit on equal-length (X, y) fails with the spline construction's error
\* whenever X has fewer than k + 1 distinct values, however long X is.
C4_TooFewDistinct ==
    (res.op = "fit" /\ Cardinality(Range(data.X)) < k + 1) =>
        (~res.ok /\ FitError(res.err) /\ ~Fitted)

\* degree 3, two distinct x values in four or more rows
C4_Witness ==
    /\ res.op = "fit"
    /\ k = 3
    /\ Cardinality(Range(data.X)) = 2
    /\ Len(data.X) >= 4
    /\ ~res.ok

\* C5: the fitted state is the one a fresh instance with the same
\* hyperparameters gets from one fit on the (X, y) of the most recent
\* successful fit, and a prediction is that state's value at the inputs.
C5_LastFitDecides ==
    /\ lastFit = None => model = None
    /\ lastFit # None => model = FreshFit(lastFit.X, lastFit.y)
    /\ (res.op = "predict" /\ res.ok) =>
          /\ lastFit # None
          /\ res.out = SplineCall(FreshFit(lastFit.X, lastFit.y), res.arg)

\* a prediction after a second successful fit
C5_Witness == fits = 2 /\ res.op = "predict" /\ res.ok /\ res.arg # <<>>

\* C6: with s = 0 and k = 3, a prediction at training x values after a
\* successful fit is, for each x, the mean of the training y values of
\* that x.
C6_Interpolates ==
    (s = 0 /\ k = 3 /\ res.op = "predict" /\ res.ok) =>
        /\ Cardinality(Range(data.X)) >= 4
        /\ Len(res.out) = Len(res.arg)
        /\ \A i \in 1..Len(res.arg) :
              IsMeanAt(res.out[i], data.X, data.y, res.arg[i])

\* a prediction at the raw training X, which has duplicates with different y
C6_Witness ==
    /\ s = 0 /\ k = 3 /\ res.op = "predict" /\ res.ok
    /\ res.arg = data.X
    /\ \E i, j \in 1..Len(data.X) : data.X[i] = data.X[j] /\ data.y[i] # data.y[j]

\* C7 as stated: on X = [1,1,2,3], y = [10,20,30,40], deduplicate gives
\* [1,2,3], [15,30,40]; fit on the default instance succeeds and
\* predict([1,2,3]) gives [15,30,40].
C7_AsStated ==
    (data = Scenario /\ s = DefaultS /\ k = DefaultK) =>
        /\ res.op = "dedup" => res.out = <<<<1, 2, 3>>, <<R(15), R(30), R(40)>>>>
        /\ res.op = "fit" => res.ok
        /\ (res.op = "predict" /\ res.arg = <<1, 2, 3>>) =>
              (res.ok /\ res.out = <<R(15), R(30), R(40)>>)

\* C7, amended: deduplicate gives [1,2,3], [15,30,40]; on the default
\* instance (s = 0, k = 3) fit fails with the spline construction's error,
\* three distinct points being fewer than k + 1, and predict then fails as
\* not fitted; on an instance with s = 0 and k = 2 fit succeeds and
\* predict([1,2,3]) gives [15,30,40].
C7_Scenario ==
    (data = Scenario /\ s = DefaultS) =>
        /\ res.op = "dedup" => res.out = <<<<1, 2, 3>>, <<R(15), R(30), R(40)>>>>
        /\ (k = DefaultK /\ res.op = "fit") => (~res.ok /\ FitError(res.err))
        /\ (k = DefaultK /\ res.op = "predict") => (~res.ok /\ NotFittedError(res.err))
        /\ (k = 2 /\ res.op = "fit") => res.ok
        /\ (k = 2 /\ res.op = "predict" /\ res.arg = <<1, 2, 3>>) =>
              (res.ok /\ res.out = <<R(15), R(30), R(40)>>)

C7_Witness ==
    /\ data = Scenario /\ s = DefaultS /\ k = 2
    /\ res.op = "predict" /\ res.arg = <<1, 2, 3>> /\ res.ok

\* C8: deduplicate applied to its own result returns that result; and when
\* X has no duplicates the result is X sorted ascending, each y staying with
\* its x.
C8_Idempotent ==
    /\ res.op = "dedup2" => (res.ok /\ res.out = res.arg)
    /\ (res.op = "dedup" /\ Cardinality(Range(data.X)) = Len(data.X)) =>
          /\ res.ok
          /\ Len(res.out[1]) = Len(data.X)
          /\ Len(res.out[2]) = Len(data.X)
          /\ StrictlyIncreasing(res.out[1])
          /\ \A j \in 1..Len(data.X) : \E i \in 1..Len(res.out[1]) :
                res.out[1][i] = data.X[j] /\ res.out[2][i] = data.y[j]

\* the second application, on a result that is shorter than X and that the
\* first application had to sort
C8_Witness ==
    /\ res.op = "dedup2"
    /\ Len(res.arg[1]) < Len(data.X)
    /\ ~Increasing(data.X)

\* C9: predict and deduplicate leave self.model, self.s and self.k as they
\* were, and a successful predict returns one value per input, in the
\* inputs' order: the fitted spline's value at that input.
C9_PredictDedupPure ==
    [][/\ res'.op \in {"predict", "dedup"} => (model' = model /\ s' = s /\ k' = k)
       /\ (res'.op = "predict" /\ res'.ok) =>
             /\ Len(res'.out) = Len(res'.arg)
             /\ \A i \in 1..Len(res'.arg) : res'.out[i] = SplineAt(model, res'.arg[i])
      ]_vars

\* a prediction for two different inputs in descending order
C9_Witness ==
    /\ res.op = "predict" /\ res.ok
    /\ Len(res.arg) = 2
    /\ res.arg[1] > res.arg[2]

\* C10: once fitted, always fitted; the instance is fitted exactly when a
\* fit call has succeeded, and predict on it then never fails.
C10_Monotone ==
    [][/\ Fitted => Fitted'
       /\ (Fitted <=> fits > 0) /\ (Fitted' <=> fits' > 0)
       /\ (res'.op = "predict" /\ fits > 0) => res'.ok
      ]_vars

\* a fitted instance after a fit call that failed in promediar_duplicados
C10_Witness == fits > 0 /\ res.op = "fit" /\ ~res.ok /\ ~FitError(res.err) /\ Fitted

====
